---- MODULE Spec2Model ----
(***************************************************************************)
(* A model of src/src/column.rs: the ChunkedArray wrapper, its constructor *)
(* `new`, `copy_with_array`, the `variant_operand!` macro behind the       *)
(* Add/Sub/Mul operators (by reference and by value) and `clone`.          *)
(*                                                                         *)
(* Arrays (the Arc<dyn Array> chunks) live in a heap of immutable cells    *)
(* addressed by handles; an Arc is a handle, and a cell is released when   *)
(* no ChunkedArray holds its handle any more.  A panic (unwrap / expect /  *)
(* arithmetic overflow in an overflow-checking build) ends the process.    *)
(***************************************************************************)
EXTENDS Integers, Sequences, FiniteSets

\* ------------------------------------------------------------------ bounds
\* Longest slice handed to `new` (and longest chunk of a literal).
MaxLen == 1
\* Number of calls made by the client program; also the number of variables
\* it can hold, since every call creates at most one value.
MaxSteps == 3
\* Most chunks of a ChunkedArray written as a struct literal.
MaxChunks == 2

\* ------------------------------------------------------------- vocabulary
\* Instantiations of the type parameter K of `new` (ArrowPrimitiveType), and
\* the client's instantiation of the parameter T of ChunkedArray<T>: a narrow
\* type, so that the native arithmetic can leave its range.
DataTypes == {"Int8", "Int16"}
ElemT == "Int8"
Bits(t) == IF t = "Int8" THEN 8 ELSE 16
\* Native values a client passes in slices.
InputVals == {2, 100}
\* The value the operands of the API client are built from: Int8 holds it,
\* but neither its double nor its square.
OperandVals == {100}
Names == {"a", "b"}
Ops == {"add", "sub", "mul"}
Slots == 1 .. MaxSteps
Handles == 1 .. (MaxSteps * MaxChunks)

Pow2(n) == 2 ^ n
MinVal(t) == 0 - Pow2(Bits(t) - 1)
MaxVal(t) == Pow2(Bits(t) - 1) - 1
InRange(t, x) == MinVal(t) <= x /\ x <= MaxVal(t)
\* Two's complement wrap-around of the native type of t.
Wrap(t, x) == ((x + Pow2(Bits(t) - 1)) % Pow2(Bits(t))) - Pow2(Bits(t) - 1)

Min(a, b) == IF a <= b THEN a ELSE b

\* --------------------------------------------------------------- the state
VARIABLES
    heap,            \* Handles -> array cell, or Free
    vars,            \* Slots -> ChunkedArray held by the client, or NoCA
    aborted,         \* the process has panicked
    overflowChecks,  \* the build panics on integer overflow (debug) or wraps
    steps,           \* calls made so far
    last             \* the most recent call: its inputs and where its result is

vs == <<heap, vars, aborted, overflowChecks, steps, last>>

Free == [dtype |-> "free", vals |-> <<>>, valid |-> <<>>]
NoField == [name |-> "", data_type |-> "none", nullable |-> FALSE]
NoCA == [T |-> "none", field |-> NoField, chunks |-> <<>>, len |-> 0, null_counts |-> 0]

\* ------------------------------------------------------ arrays and builder
RECURSIVE PrependValues(_, _)
\* A builder that pushes each value in front of the earlier ones.
PrependValues(acc, v) ==
    IF v = <<>> THEN acc ELSE PrependValues(<<Head(v)>> \o acc, Tail(v))

RECURSIVE AppendValues(_, _)
\* PrimitiveBuilder: append_value for each element of the slice, in order.
AppendValues(acc, v) ==
    IF v = <<>> THEN acc ELSE AppendValues(Append(acc, Head(v)), Tail(v))

\* A builder typed by the array's parameter T instead of new's K.
BuilderFinishAsT(K, v) ==
    LET vals == AppendValues(<<>>, v)
    IN [dtype |-> ElemT, vals |-> vals, valid |-> [i \in 1 .. Len(vals) |-> TRUE]]

\* builder.finish(): a PrimitiveArray<K> holding the appended values, every
\* slot valid (append_value sets the validity bit; nothing appends a null).
BuilderFinish(K, v) ==
    LET vals == AppendValues(<<>>, v)
    IN [dtype |-> K, vals |-> vals, valid |-> [i \in 1 .. Len(vals) |-> TRUE]]

ArrLen(arr) == Len(arr.vals)
ArrNulls(arr) == Cardinality({i \in 1 .. Len(arr.vals) : ~arr.valid[i]})

RECURSIVE SumLens(_)
SumLens(arrs) == IF arrs = <<>> THEN 0 ELSE ArrLen(Head(arrs)) + SumLens(Tail(arrs))

RECURSIVE SumNulls(_)
SumNulls(arrs) == IF arrs = <<>> THEN 0 ELSE ArrNulls(Head(arrs)) + SumNulls(Tail(arrs))

\* The arrays behind a vector of handles.
Deref(hp, hs) == [i \in 1 .. Len(hs) |-> hp[hs[i]]]

\* ----------------------------------------------------------- ChunkedArray
\* new with null_counts set from the slice's length.
NewCountsValuesAsNulls(T, name, K, v, h) ==
    [T |-> T,
     field |-> [name |-> name, data_type |-> K, nullable |-> TRUE],
     chunks |-> <<h>>,
     len |-> Len(v),
     null_counts |-> Len(v)]

\* ChunkedArray::<T>::new::<K>(name, v), its single chunk stored at handle h.
NewChunked(T, name, K, v, h) ==
    [T |-> T,
     field |-> [name |-> name, data_type |-> K, nullable |-> TRUE],
     chunks |-> <<h>>,
     len |-> Len(v),
     null_counts |-> 0]

\* copy_with_array taking len from the new vector of chunks.
CopyLenOfVec(self, arr) ==
    [T |-> self.T,
     field |-> self.field,
     chunks |-> arr,
     len |-> Len(arr),
     null_counts |-> self.null_counts]

\* self.copy_with_array(arr)
CopyWithArray(self, arr) ==
    [T |-> self.T,
     field |-> self.field,
     chunks |-> arr,
     len |-> self.len,
     null_counts |-> self.null_counts]

\* self.clone(): the Vec<ArrayRef> is cloned, so the Arcs are shared.
CloneChunked(self) ==
    [T |-> self.T,
     field |-> self.field,
     chunks |-> self.chunks,
     len |-> self.len,
     null_counts |-> self.null_counts]

\* ------------------------------------------------------ the compute kernels
\* The native operator of T::Native on mathematical integers.
NativeOp(op, x, y) ==
    CASE op = "add" -> x + y
      [] op = "sub" -> x - y
      [] op = "mul" -> x * y

\* arrow::compute::{add, subtract, multiply}(left, right) on two
\* PrimitiveArray<t>: an Err for arrays of different length; otherwise slot j
\* is null when either input slot is null and left[j] op right[j] otherwise.
\* An out-of-range result panics in an overflow-checking build and wraps in
\* the others.
Kernel(op, t, left, right, checks) ==
    IF ArrLen(left) # ArrLen(right)
    THEN [status |-> "err", arr |-> Free]
    ELSE LET n == ArrLen(left)
             ok(j) == left.valid[j] /\ right.valid[j]
             exact(j) == NativeOp(op, left.vals[j], right.vals[j])
         IN IF checks /\ \E j \in 1 .. n : ok(j) /\ ~InRange(t, exact(j))
            THEN [status |-> "panic", arr |-> Free]
            ELSE [status |-> "ok",
                  arr |-> [dtype |-> t,
                           vals |-> [j \in 1 .. n |->
                                       IF ok(j) THEN Wrap(t, exact(j)) ELSE 0],
                           valid |-> [j \in 1 .. n |-> ok(j)]]]

\* The closure handing the chunks to the kernel in the other order.
ZipPairSwapsArgs(op, t, l, r, checks) ==
    IF l.dtype # t \/ r.dtype # t
    THEN [status |-> "panic", arr |-> Free]
    ELSE LET k == Kernel(op, t, r, l, checks)
         IN IF k.status = "ok" THEN k ELSE [status |-> "panic", arr |-> Free]

\* The closure replacing the kernel's Err by an empty array instead of
\* expecting the Result.
ZipPairSwallowsErr(op, t, l, r, checks) ==
    IF l.dtype # t \/ r.dtype # t
    THEN [status |-> "panic", arr |-> Free]
    ELSE LET k == Kernel(op, t, l, r, checks)
         IN IF k.status = "err"
            THEN [status |-> "ok", arr |-> [dtype |-> t, vals |-> <<>>, valid |-> <<>>]]
            ELSE k

\* The closure with the test of the right downcast inverted.
ZipPairWrongDowncast(op, t, l, r, checks) ==
    IF l.dtype # t \/ r.dtype = t
    THEN [status |-> "panic", arr |-> Free]
    ELSE LET k == Kernel(op, t, l, r, checks)
         IN IF k.status = "ok" THEN k ELSE [status |-> "panic", arr |-> Free]

\* The closure of variant_operand! on one zipped pair (l, r): both downcasts
\* to PrimitiveArray<t> unwrapped, then the kernel's Result expected.
ZipPair(op, t, l, r, checks) ==
    IF l.dtype # t \/ r.dtype # t
    THEN [status |-> "panic", arr |-> Free]
    ELSE LET k == Kernel(op, t, l, r, checks)
         IN IF k.status = "ok" THEN k ELSE [status |-> "panic", arr |-> Free]

\* The for_each over self.chunks.iter().zip(rhs.chunks.iter()): one outcome
\* per pair, as many pairs as the shorter vector has chunks.
ZipResults(self, rhs, op, hp, checks) ==
    [i \in 1 .. Min(Len(self.chunks), Len(rhs.chunks)) |->
        ZipPair(op, self.T, hp[self.chunks[i]], hp[rhs.chunks[i]], checks)]

\* variant_operand! ending in rhs.copy_with_array(new_chunks).
VariantOperandCopiesRhs(self, rhs, op, hp, checks, hs) ==
    LET rs == ZipResults(self, rhs, op, hp, checks)
        new_chunks == SubSeq(hs, 1, Len(rs))
    IN IF \E i \in 1 .. Len(rs) : rs[i].status # "ok"
       THEN [status |-> "panic", arrs |-> <<>>, handles |-> <<>>, out |-> NoCA]
       ELSE [status |-> "ok",
             arrs |-> [i \in 1 .. Len(rs) |-> rs[i].arr],
             handles |-> new_chunks,
             out |-> CopyWithArray(rhs, new_chunks)]

\* variant_operand! writing each result into the left operand's chunk.
VariantOperandInPlace(self, rhs, op, hp, checks, hs) ==
    LET rs == ZipResults(self, rhs, op, hp, checks)
        new_chunks == SubSeq(self.chunks, 1, Len(rs))
    IN IF \E i \in 1 .. Len(rs) : rs[i].status # "ok"
       THEN [status |-> "panic", arrs |-> <<>>, handles |-> <<>>, out |-> NoCA]
       ELSE [status |-> "ok",
             arrs |-> [i \in 1 .. Len(rs) |-> rs[i].arr],
             handles |-> new_chunks,
             out |-> CopyWithArray(self, new_chunks)]

\* variant_operand! refusing operands with different numbers of chunks.
VariantOperandRejectsUneven(self, rhs, op, hp, checks, hs) ==
    LET rs == ZipResults(self, rhs, op, hp, checks)
        new_chunks == SubSeq(hs, 1, Len(rs))
    IN IF Len(self.chunks) # Len(rhs.chunks) \/ \E i \in 1 .. Len(rs) : rs[i].status # "ok"
       THEN [status |-> "panic", arrs |-> <<>>, handles |-> <<>>, out |-> NoCA]
       ELSE [status |-> "ok",
             arrs |-> [i \in 1 .. Len(rs) |-> rs[i].arr],
             handles |-> new_chunks,
             out |-> CopyWithArray(self, new_chunks)]

\* variant_operand!(self, rhs, T, op, expect): zip the two chunk vectors, push
\* one kernel result per pair, then self.copy_with_array(new_chunks).  hs are
\* the handles the new Arcs get; hp is the heap the operands' chunks live in.
VariantOperand(self, rhs, op, hp, checks, hs) ==
    LET rs == ZipResults(self, rhs, op, hp, checks)
        new_chunks == SubSeq(hs, 1, Len(rs))
    IN IF \E i \in 1 .. Len(rs) : rs[i].status # "ok"
       THEN [status |-> "panic", arrs |-> <<>>, handles |-> <<>>, out |-> NoCA]
       ELSE [status |-> "ok",
             arrs |-> [i \in 1 .. Len(rs) |-> rs[i].arr],
             handles |-> new_chunks,
             out |-> CopyWithArray(self, new_chunks)]

\* ------------------------------------------------------------ heap and Arcs
Live(c) == c # NoCA
Referenced(vv, h) == \E s \in Slots : \E i \in 1 .. Len(vv[s].chunks) : vv[s].chunks[i] = h

\* Dropping the last Arc of an array releases it.
Release(hp, vv) == [h \in Handles |-> IF Referenced(vv, h) THEN hp[h] ELSE Free]

FreeHandles(hp) == {h \in Handles : hp[h] = Free}

RECURSIVE Lowest(_, _)
\* The n lowest handles of the set S, in increasing order.
Lowest(S, n) ==
    IF n = 0 \/ S = {} THEN <<>>
    ELSE LET m == CHOOSE x \in S : \A y \in S : x <= y
         IN <<m>> \o Lowest(S \ {m}, n - 1)

\* Storing the arrays arrs at the handles hs.
Store(hp, hs, arrs) ==
    [h \in Handles |->
        IF \E i \in 1 .. Len(arrs) : hs[i] = h
        THEN arrs[CHOOSE i \in 1 .. Len(arrs) : hs[i] = h]
        ELSE hp[h]]

FreeSlots(vv) == {s \in Slots : ~Live(vv[s])}
\* The variable a new value is bound to.
NextSlot(vv) == CHOOSE s \in FreeSlots(vv) : \A u \in FreeSlots(vv) : s <= u

\* What a call leaves in `last`.
Call(op, kind, lhs, rhs, res, selfv, rhsv, selfarrs, rhsarrs, T, name, K, v) ==
    [op |-> op, kind |-> kind, lhs |-> lhs, rhs |-> rhs, res |-> res,
     selfv |-> selfv, rhsv |-> rhsv, selfarrs |-> selfarrs, rhsarrs |-> rhsarrs,
     T |-> T, name |-> name, K |-> K, v |-> v]

NoCall == Call("init", "-", 0, 0, 0, NoCA, NoCA, <<>>, <<>>, "none", "", "none", <<>>)

Slices == UNION {[1 .. n -> OperandVals] : n \in 0 .. MaxLen}

\* ------------------------------------------------------------------ actions
Running == ~aborted /\ steps < MaxSteps

\* let s = ChunkedArray::<T>::new::<K>(name, &v);
New(name, K, v) ==
    /\ Running
    /\ FreeSlots(vars) # {}
    /\ FreeHandles(heap) # {}
    /\ LET h == Lowest(FreeHandles(heap), 1)[1]
           d == NextSlot(vars)
       IN /\ heap' = [heap EXCEPT ![h] = BuilderFinish(K, v)]
          /\ vars' = [vars EXCEPT ![d] = NewChunked(ElemT, name, K, v, h)]
          /\ last' = Call("new", "-", 0, 0, d, NoCA, NoCA, <<>>, <<>>, ElemT, name, K, v)
    /\ steps' = steps + 1
    /\ UNCHANGED <<aborted, overflowChecks>>

\* let s = vars[a].clone();
Clone(a) ==
    /\ Running
    /\ Live(vars[a])
    /\ FreeSlots(vars) # {}
    /\ LET d == NextSlot(vars)
       IN /\ vars' = [vars EXCEPT ![d] = CloneChunked(vars[a])]
          /\ last' = Call("clone", "-", a, 0, d, vars[a], NoCA,
                          Deref(heap, vars[a].chunks), <<>>, vars[a].T, "", "none", <<>>)
    /\ steps' = steps + 1
    /\ UNCHANGED <<heap, aborted, overflowChecks>>

\* The outcome of `self op rhs` shared by both operator families: vv is what
\* the client still holds once the operands are borrowed (by reference) or
\* moved (by value).
Operate(op, kind, a, b, vv) ==
    LET self == vars[a]
        rhs == vars[b]
        n == Min(Len(self.chunks), Len(rhs.chunks))
        hs == Lowest(FreeHandles(heap), n)
        r == VariantOperand(self, rhs, op, heap, overflowChecks, hs)
        d == NextSlot(vv)
        vv2 == [vv EXCEPT ![d] = r.out]
    IN /\ Len(hs) = n
       /\ FreeSlots(vv) # {}
       /\ IF r.status = "ok"
          THEN /\ vars' = vv2
               /\ heap' = Release(Store(heap, r.handles, r.arrs), vv2)
               /\ aborted' = FALSE
               /\ last' = Call(op, kind, a, b, d, self, rhs, Deref(heap, self.chunks),
                               Deref(heap, rhs.chunks), self.T, "", "none", <<>>)
          ELSE /\ aborted' = TRUE
               /\ last' = Call(op, kind, a, b, 0, self, rhs, Deref(heap, self.chunks),
                               Deref(heap, rhs.chunks), self.T, "", "none", <<>>)
               /\ UNCHANGED <<vars, heap>>
       /\ steps' = steps + 1
       /\ UNCHANGED <<overflowChecks>>

\* let s = &vars[a] op &vars[b];   (impl Add/Mul/Sub for &ChunkedArray<T>)
OpRef(op, a, b) ==
    /\ Running
    /\ Live(vars[a]) /\ Live(vars[b])
    /\ vars[a].T = vars[b].T
    /\ Operate(op, "ref", a, b, vars)

\* let s = vars[a] op vars[b];     (impl Add/Mul/Sub for ChunkedArray<T>)
\* Both operands are moved into the call and dropped when it returns.
OpVal(op, a, b) ==
    /\ Running
    /\ a # b
    /\ Live(vars[a]) /\ Live(vars[b])
    /\ vars[a].T = vars[b].T
    /\ Operate(op, "val", a, b, [vars EXCEPT ![a] = NoCA, ![b] = NoCA])

\* ----------------------------------------------------------- specifications
\* A client that only uses the API: new, clone and the operators.
Init ==
    /\ heap = [h \in Handles |-> Free]
    /\ vars = [s \in Slots |-> NoCA]
    /\ aborted = FALSE
    /\ overflowChecks \in BOOLEAN
    /\ steps = 0
    /\ last = NoCall

Next ==
    \/ \E name \in Names, K \in DataTypes, v \in Slices : New(name, K, v)
    \/ \E a \in Slots : Clone(a)
    \/ \E op \in Ops, a \in Slots, b \in Slots : OpRef(op, a, b)
    \/ \E op \in Ops, a \in Slots, b \in Slots : OpVal(op, a, b)

Spec == Init /\ [][Next]_vs

\* A client inside the module, where the fields are visible: its two operands
\* are struct literals of ChunkedArray<T> with one to MaxChunks chunks, each
\* chunk built by a PrimitiveBuilder<T> (the first operand's from the value
\* 100, the second's from 2), and len and null_counts set to the sums the
\* field comments ask for.  One call is left to it: a clone or an operator
\* applied to the literals.
LitArrays(x) == {BuilderFinish(ElemT, v) : v \in UNION {[1 .. n -> {x}] : n \in 0 .. MaxLen}}
LitChunks(x) == UNION {[1 .. n -> LitArrays(x)] : n \in 1 .. MaxChunks}

Literal(name, arrs, hs) ==
    [T |-> ElemT,
     field |-> [name |-> name, data_type |-> ElemT, nullable |-> TRUE],
     chunks |-> hs,
     len |-> SumLens(arrs),
     null_counts |-> SumNulls(arrs)]

InitLit ==
    /\ \E c1 \in LitChunks(100), c2 \in LitChunks(2) :
          LET h1 == [i \in 1 .. Len(c1) |-> i]
              h2 == [i \in 1 .. Len(c2) |-> Len(c1) + i]
          IN /\ heap = Store(Store([h \in Handles |-> Free], h1, c1), h2, c2)
             /\ vars = [s \in Slots |->
                          IF s = 1 THEN Literal("a", c1, h1)
                          ELSE IF s = 2 THEN Literal("b", c2, h2)
                          ELSE NoCA]
    /\ aborted = FALSE
    /\ overflowChecks \in BOOLEAN
    /\ steps = MaxSteps - 1
    /\ last = NoCall

NextLit ==
    \/ \E a \in Slots : Clone(a)
    \/ \E op \in Ops, a \in Slots, b \in Slots : OpRef(op, a, b)
    \/ \E op \in Ops, a \in Slots, b \in Slots : OpVal(op, a, b)

SpecLit == InitLit /\ [][NextLit]_vs

\* A client that goes on calling `new` after the test's get_array(), with
\* slices of up to MaxSliceLen values.
MaxSliceLen == 2
LongSlices == UNION {[1 .. n -> InputVals] : n \in 0 .. MaxSliceLen}
\* The slice of get_array(), in the model's values.
Fixture == <<2, 100>>

InitNew ==
    /\ heap = [h \in Handles |-> IF h = 1 THEN BuilderFinish(ElemT, Fixture) ELSE Free]
    /\ vars = [s \in Slots |-> IF s = 1 THEN NewChunked(ElemT, "a", ElemT, Fixture, 1) ELSE NoCA]
    /\ aborted = FALSE
    /\ overflowChecks \in BOOLEAN
    /\ steps = 1
    /\ last = Call("new", "-", 0, 0, 1, NoCA, NoCA, <<>>, <<>>, ElemT, "a", ElemT, Fixture)

NextNew == \E name \in Names, K \in DataTypes, v \in LongSlices : New(name, K, v)

SpecNew == InitNew /\ [][NextNew]_vs

\* ================================================================== claims
\* Reading the most recent call.
IsOp == last.op \in Ops
Returned == IsOp /\ last.res # 0
Result == vars[last.res]
ResultArrs == Deref(heap, Result.chunks)
NumPairs == Min(Len(last.selfarrs), Len(last.rhsarrs))

\* Some zipped pair of chunks cannot be handed to the kernel: one of the two
\* is no PrimitiveArray<T>, or their lengths differ.
PairMismatch ==
    \E i \in 1 .. NumPairs :
        \/ last.selfarrs[i].dtype # last.T
        \/ last.rhsarrs[i].dtype # last.T
        \/ ArrLen(last.selfarrs[i]) # ArrLen(last.rhsarrs[i])

\* Some elementwise result of op on the zipped pairs of the chunk vectors la
\* and ra leaves the range of the native type of t.
PairsOverflow(op, t, la, ra) ==
    \E i \in 1 .. Min(Len(la), Len(ra)) :
        \E j \in 1 .. Min(ArrLen(la[i]), ArrLen(ra[i])) :
            /\ la[i].valid[j] /\ ra[i].valid[j]
            /\ ~InRange(t, NativeOp(op, la[i].vals[j], ra[i].vals[j]))

Overflows == PairsOverflow(last.op, last.T, last.selfarrs, last.rhsarrs)

\* C1: every ChunkedArray a client of new, clone, add, sub and mul holds has
\* len equal to the sum of the lengths of its chunks.
C1_LenIsSumOfChunkLengths ==
    \A s \in Slots :
        Live(vars[s]) => vars[s].len = SumLens(Deref(heap, vars[s].chunks))

\* C1 witness: an operator has returned a non-empty array built from a clone.
C1_Witness ==
    /\ Returned
    /\ Result.len >= 1
    /\ last.lhs # last.rhs
    /\ last.selfv.chunks = last.rhsv.chunks

C3_NewBuildsOneChunkFromSlice ==
    last.op = "new" =>
        /\ Live(Result)
        /\ Len(Result.chunks) = 1
        /\ ResultArrs[1].dtype = last.K
        /\ ResultArrs[1].vals = last.v
        /\ \A j \in 1 .. Len(last.v) : ResultArrs[1].valid[j]
        /\ ArrLen(ResultArrs[1]) = Len(last.v)
        /\ Result.len = Len(last.v)
        /\ Result.null_counts = 0
        /\ Result.field = [name |-> last.name, data_type |-> last.K, nullable |-> TRUE]

\* C3 witness: new was called with a slice of two different values.
C3_Witness ==
    /\ last.op = "new"
    /\ steps > 1
    /\ Len(last.v) = 2
    /\ last.v[1] # last.v[2]

\* C4: for operands with the same number of chunks, pairwise of equal length
\* and of type T, the result has one chunk per pair, in the operands' order,
\* and element j of chunk i is self[i][j] op rhs[i][j], self on the left, op
\* being the native operator of T::Native (which wraps where the build lets
\* an out-of-range result through).
C4_ResultIsKernelPerChunkPair ==
    (/\ Returned
     /\ Len(last.selfarrs) = Len(last.rhsarrs)
     /\ ~PairMismatch)
    => /\ Len(Result.chunks) = Len(last.selfarrs)
       /\ \A i \in 1 .. Len(last.selfarrs) :
             /\ ResultArrs[i].dtype = last.T
             /\ ArrLen(ResultArrs[i]) = ArrLen(last.selfarrs[i])
             /\ \A j \in 1 .. ArrLen(last.selfarrs[i]) :
                   /\ ResultArrs[i].valid[j]
                   /\ ResultArrs[i].vals[j] =
                        Wrap(last.T, CASE last.op = "add" ->
                                            last.selfarrs[i].vals[j] + last.rhsarrs[i].vals[j]
                                       [] last.op = "sub" ->
                                            last.selfarrs[i].vals[j] - last.rhsarrs[i].vals[j]
                                       [] last.op = "mul" ->
                                            last.selfarrs[i].vals[j] * last.rhsarrs[i].vals[j])
                   /\ overflowChecks =>
                        ResultArrs[i].vals[j] =
                            (CASE last.op = "add" ->
                                    last.selfarrs[i].vals[j] + last.rhsarrs[i].vals[j]
                               [] last.op = "sub" ->
                                    last.selfarrs[i].vals[j] - last.rhsarrs[i].vals[j]
                               [] last.op = "mul" ->
                                    last.selfarrs[i].vals[j] * last.rhsarrs[i].vals[j])

\* C4 witness: a subtraction of two different operands of two chunks each,
\* the first chunk non-empty and the second empty, has returned.
C4_Witness ==
    /\ Returned
    /\ last.op = "sub"
    /\ last.lhs # last.rhs
    /\ Len(last.selfarrs) = 2 /\ Len(last.rhsarrs) = 2
    /\ ArrLen(last.selfarrs[1]) = 1 /\ ArrLen(last.selfarrs[2]) = 0
    /\ last.selfarrs[1].vals[1] # last.rhsarrs[1].vals[1]

\* C5: a by-reference operator on two arrays built by new::<T> (or cloned
\* from one) of the same length does not abort when no elementwise result
\* leaves the range of T, and leaves both operands, and their chunks, as they
\* were, so that the next operator can be applied to them.
C5_EqualShapedOperandsSucceed ==
    (/\ IsOp
     /\ last.kind = "ref"
     /\ Len(last.selfarrs) = 1 /\ Len(last.rhsarrs) = 1
     /\ last.selfarrs[1].dtype = last.T /\ last.rhsarrs[1].dtype = last.T
     /\ ArrLen(last.selfarrs[1]) = ArrLen(last.rhsarrs[1])
     /\ ~Overflows)
    => /\ ~aborted
       /\ Returned
       /\ vars[last.lhs] = last.selfv
       /\ vars[last.rhs] = last.rhsv
       /\ Deref(heap, vars[last.lhs].chunks) = last.selfarrs
       /\ Deref(heap, vars[last.rhs].chunks) = last.rhsarrs
       /\ \A op2 \in Ops :
             ~PairsOverflow(op2, last.T, last.selfarrs, last.rhsarrs)
             => VariantOperand(vars[last.lhs], vars[last.rhs], op2, heap, overflowChecks,
                               Lowest(FreeHandles(heap), 1)).status = "ok"

\* C5 witness: an operator by reference has returned for a non-empty s1 and
\* its clone s2, both still held by the client.
C5_Witness ==
    /\ Returned
    /\ last.kind = "ref"
    /\ last.lhs # last.rhs
    /\ last.selfv.chunks = last.rhsv.chunks
    /\ last.selfv.len >= 1
    /\ vars[last.lhs] = last.selfv /\ vars[last.rhs] = last.rhsv

\* C6: every ChunkedArray a client of new, clone, add, sub and mul holds has
\* null_counts equal to the sum of the null counts of its chunks.
C6_NullCountsIsSumOfChunkNulls ==
    \A s \in Slots :
        Live(vars[s]) => vars[s].null_counts = SumNulls(Deref(heap, vars[s].chunks))

\* C6 witness: an operator has returned a non-empty result.
C6_Witness ==
    /\ Returned
    /\ ArrLen(ResultArrs[1]) >= 1
    /\ Result.null_counts = last.selfv.null_counts

\* C7: the result of self op rhs has the field, len and null_counts of self;
\* a + b and b + a have the same chunk contents and the fields of a and of b;
\* a by-reference operator leaves both operands and their chunks unchanged.
C7_ResultMetadataFromLeftOperand ==
    /\ Returned =>
          /\ Result.field = last.selfv.field
          /\ Result.len = last.selfv.len
          /\ Result.null_counts = last.selfv.null_counts
          /\ Result.T = last.selfv.T
    /\ (IsOp /\ last.kind = "ref") =>
          /\ vars[last.lhs] = last.selfv
          /\ vars[last.rhs] = last.rhsv
          /\ Deref(heap, last.selfv.chunks) = last.selfarrs
          /\ Deref(heap, last.rhsv.chunks) = last.rhsarrs
    /\ \A a \in Slots, b \in Slots :
          (Live(vars[a]) /\ Live(vars[b]) /\ FreeHandles(heap) # {}) =>
              LET hs == Lowest(FreeHandles(heap), 1)
                  ab == VariantOperand(vars[a], vars[b], "add", heap, overflowChecks, hs)
                  ba == VariantOperand(vars[b], vars[a], "add", heap, overflowChecks, hs)
              IN ab.status = "ok" =>
                    /\ ba.status = "ok"
                    /\ ab.arrs = ba.arrs
                    /\ ab.out.field = vars[a].field
                    /\ ba.out.field = vars[b].field

\* C7 witness: an operator by reference has returned for operands whose
\* fields differ.
C7_Witness ==
    /\ Returned
    /\ last.kind = "ref"
    /\ last.selfv.field # last.rhsv.field
    /\ Result.field # last.rhsv.field

\* C8: clone returns an array equal to the original in field, len,
\* null_counts and chunk handles, and leaves the original as it was; no call
\* changes the contents of a chunk that exists before it and is still held
\* after it.
C8_CloneSharesAndChunksAreImmutable ==
    [][/\ last'.op = "clone" =>
            /\ vars'[last'.res] = vars[last'.lhs]
            /\ vars'[last'.lhs] = vars[last'.lhs]
            /\ last'.res # last'.lhs
       /\ \A h \in Handles :
            (heap[h] # Free /\ Referenced(vars', h)) => heap'[h] = heap[h]]_vs

\* C8 witness: an operator has returned while an original and its clone are
\* both held.
C8_Witness ==
    /\ Returned
    /\ \E a \in Slots, b \in Slots :
          /\ a # b
          /\ Live(vars[a])
          /\ vars[a] = vars[b]
          /\ a = last.lhs

\* The chunks of self that no chunk of rhs is zipped with.
Surplus == SubSeq(last.selfarrs, NumPairs + 1, Len(last.selfarrs))

C10_ChunkTypeIsKNotT ==
    /\ last.op = "new" =>
          /\ Result.T = last.T
          /\ Result.field.data_type = last.K
          /\ ResultArrs[1].dtype = last.K
          /\ (ResultArrs[1].dtype = Result.T) = (last.K = last.T)
    /\ (IsOp /\ \/ \E i \in 1 .. Len(last.selfarrs) : last.selfarrs[i].dtype # last.T
                \/ \E i \in 1 .. Len(last.rhsarrs) : last.rhsarrs[i].dtype # last.T)
          => aborted /\ last.res = 0
    /\ \A s \in Slots : \A i \in 1 .. Len(vars[s].chunks) :
          heap[vars[s].chunks[i]].dtype = vars[s].field.data_type

\* C10 witness: an operator aborted on a left operand built by new::<K> with
\* K different from T, the right operand's chunk being of type T.
C10_Witness ==
    /\ IsOp /\ aborted
    /\ last.selfarrs[1].dtype # last.T
    /\ last.selfv.T = last.T
    /\ last.rhsarrs[1].dtype = last.T
    /\ ArrLen(last.selfarrs[1]) = ArrLen(last.rhsarrs[1])


====
